---- MODULE Spec2Model ----
(***************************************************************************)
(* ProductionLine of production_line_control.py: the start/stop control    *)
(* surface, the worker thread's loop (_run_production), the production     *)
(* cycle, the maintenance routine, the metrics history and the observer    *)
(* notification, as interleaved threads over the instance's fields.        *)
(*                                                                         *)
(* A step is a statement of the source that reads or writes a field of     *)
(* the instance; what a thread does on its own locals between two such     *)
(* statements belongs to the step before. A `with self._lock:` block       *)
(* acquires the lock together with its first statement and releases it     *)
(* together with its last one; statements outside such a block touch the   *)
(* fields with no lock held, exactly as the source does.                   *)
(***************************************************************************)
EXTENDS Integers, Sequences, FiniteSets, TLC

\* ---------------------------------------------------------------- bounds
\* Commands (start / stop / register_observer) the control thread issues.
MaxCommands == 3
\* Production cycles begun, over all workers, in a run that does not end
\* by itself (see EndsByItself).
MaxCycles == 3
\* The clock's horizon, in seconds since start_time: the clock stops there.
MaxTime == 1
\* Threads calling Configuration() concurrently, and the calls each makes.
MaxCallers == 3
MaxCalls == 2

\* ------------------------------------------------------- program constants
\* `if self.error_count > 5`
ErrorLimit == 5
\* Configuration.max_speed
MaxSpeed == 100
\* the divisor of `int(self.production_rate / 60)`
PerSecond == 60
\* time.sleep(1.0)
CyclePause == 1
\* time.sleep(5)
MaintenancePause == 5
\* self.error_threshold = 0.05, in percent
DefaultErrorThreshold == 5
\* self.maintenance_interval = 3600
DefaultMaintenanceInterval == 3600

\* The pseudo-random generator both random.random() and random.uniform() draw
\* from, as the periodic stream of its values in percent of [0, 1): a run's
\* seed fixes the stream. The streams: every draw low (every cycle flagged at
\* any threshold), every draw high (flagged only at threshold 1.0), and a
\* mixed one.
Seeds == {<<0>>, <<50>>, <<0, 50, 50>>}
\* random.uniform(0.8, 1.0) is 0.8 + (1.0 - 0.8) * random(): in percent.
UniformLow == 80
UniformSpan == 20
\* Configuration.error_threshold, in percent: the default 0.05, and 1.0
\* (every cycle flagged).
ErrorThresholds == {DefaultErrorThreshold, 100}
\* Configuration.maintenance_interval: 0 (due at every cycle), and one beyond
\* the clock's horizon (never due, as the default 3600 in a short run).
MaintenanceIntervals == {0, MaxTime + 1}

\* MachineState
IDLE == "IDLE"
RUNNING == "RUNNING"
ERROR == "ERROR"
MAINTENANCE == "MAINTENANCE"
MachineState == {IDLE, RUNNING, ERROR, MAINTENANCE}

\* The observer classes of the source: Visualizer.update reads metrics['time'],
\* a key notify_observers never puts in the dict, and raises KeyError;
\* DataLogger.update catches its own failures.
Visualizer == "Visualizer"
DataLogger == "DataLogger"
ObserverClasses == {Visualizer, DataLogger}
Raises(o) == o = Visualizer

\* Threads: the control thread, and the threads start_production() spawns.
\* A successful start needs the IDLE a stop (or construction) left, so
\* MaxCommands commands spawn at most (MaxCommands + 1) \div 2 workers.
Caller == 0
MaxWorkers == (MaxCommands + 1) \div 2
Workers == 1..MaxWorkers
Threads == {Caller} \cup Workers
\* The threads that call Configuration().
ConfigCallers == 1..MaxCallers

VARIABLES
    config,           \* the Configuration singleton's fields
    rng,              \* the random module's stream (fixed by the seed)
    rngpos,           \* the position of the next draw in the stream
    state,            \* self.state
    production_rate,  \* self.production_rate
    error_count,      \* self.error_count
    total_produced,   \* self.total_produced
    uptime,           \* self.uptime
    observers,        \* self.observers
    lock,             \* self._lock: the set of threads holding it
    running,          \* self._running
    metrics_history,  \* self.metrics_history: four lists
    now,              \* time.time() - self.start_time
    pc,               \* each thread's position
    ret,              \* where the thread's notify_observers() call returns to
    metrics,          \* notify_observers' local dict, per thread
    idx,              \* notify_observers' loop position, per thread
    found,            \* the state the guard of the command in flight read
    flagged,          \* whether the worker's cycle in flight was flagged erroneous
    cmds,             \* commands issued so far
    cycles,           \* production cycles begun so far
    completed,        \* production cycles completed so far
    held,             \* every <<state, rate, errors, total>> the line has held
    faultNotified,    \* an except clause's notify_observers() call has ended
    cls_instance,     \* Configuration._instance: 0 for None, else the object
    cls_lock,         \* Configuration._lock: the set of threads holding it
    objects,          \* the Configuration objects super().__new__ has made
    loads,            \* the runs of _load_config
    returned,         \* what the Configuration() calls have returned
    cpc,              \* each calling thread's position in __new__
    calls             \* the Configuration() calls each thread has made

\* The Configuration class's own state.
cvars == <<cls_instance, cls_lock, objects, loads, returned, cpc, calls>>

\* The ProductionLine instance's state (its config aside).
lvars == <<rng, rngpos, state, production_rate, error_count, total_produced, uptime,
           observers, lock, running, metrics_history, now, pc, ret, metrics, idx,
           found, flagged, cmds, cycles, completed, held, faultNotified>>

vars == <<config, lvars, cvars>>

NoMetrics == [production_rate |-> 0, error_count |-> 0, total_produced |-> 0, uptime |-> 0]

\* The line's aggregate, as a snapshot is compared with it.
Aggregate(s, r, e, t) == <<s, r, e, t>>

Min(a, b) == IF a < b THEN a ELSE b

\* The fields of ProductionLine.__init__, config and the random stream aside.
LineInit ==
    /\ rngpos = 1
    /\ state = IDLE
    /\ production_rate = 0
    /\ error_count = 0
    /\ total_produced = 0
    /\ uptime = 0
    /\ observers = <<>>
    /\ lock = {}
    /\ running = FALSE
    /\ metrics_history = [time |-> <<>>, production_rate |-> <<>>,
                          error_count |-> <<>>, total_produced |-> <<>>]
    /\ now = 0
    /\ pc = [t \in Threads |-> IF t = Caller THEN "idle" ELSE "none"]
    /\ ret = [t \in Threads |-> "none"]
    /\ metrics = [t \in Threads |-> NoMetrics]
    /\ idx = [t \in Threads |-> 0]
    /\ found = "none"
    /\ flagged = [w \in Workers |-> FALSE]
    /\ cmds = 0
    /\ cycles = 0
    /\ completed = 0
    /\ held = {Aggregate(IDLE, 0, 0, 0)}
    /\ faultNotified = FALSE

\* ProductionLine.__init__, with the Configuration a test may have set: its
\* Configuration() call has made and loaded the one instance.
Init ==
    /\ config \in [max_speed : {MaxSpeed},
                   error_threshold : ErrorThresholds,
                   maintenance_interval : MaintenanceIntervals]
    /\ rng \in Seeds
    /\ LineInit
    /\ cls_instance = 1
    /\ cls_lock = {}
    /\ objects = 1
    /\ loads = 1
    /\ returned = {1}
    /\ cpc = [t \in ConfigCallers |-> "out"]
    /\ calls = [t \in ConfigCallers |-> 0]

\* The aggregate after the step, recorded in held.
Record ==
    held' = held \cup {Aggregate(state', production_rate', error_count', total_produced')}

\* ----------------------------------------------------------------- random
\* random.random(): the next value of the stream, in percent.
Random == rng[rngpos]
\* random.uniform(0.8, 1.0): in percent.
Uniform == UniformLow + (UniformSpan * Random) \div 100
Drawn == rngpos' = (rngpos % Len(rng)) + 1

\* A run whose every cycle is flagged and whose maintenance is never due ends
\* by itself: error_count only grows, and each worker's cycle after the
\* ErrorLimit-th flagged one raises and ends the worker. Such a run is followed
\* to its end; any other is cut at MaxCycles cycles.
EndsByItself ==
    /\ \A i \in 1..Len(rng) : rng[i] < config.error_threshold
    /\ config.maintenance_interval > MaxTime

\* ------------------------------------------------------------------ lock
Acquire(t) == lock = {} /\ lock' = {t}
Release(t) == lock' = lock \ {t}

Goto(t, l) == pc' = [pc EXCEPT ![t] = l]

\* ------------------------------------------------- register_observer
\* self.observers.append(observer), from the control thread.
RegisterObserver(o) ==
    /\ pc[Caller] = "idle"
    /\ cmds < MaxCommands
    /\ cmds' = cmds + 1
    /\ observers' = Append(observers, o)
    /\ UNCHANGED <<cvars, config, rng, rngpos, state, production_rate, error_count,
                   total_produced, uptime, lock, running, metrics_history, now,
                   pc, ret, metrics, idx, found, flagged, cycles, completed,
                   held, faultNotified>>

\* --------------------------------------------------- notify_observers
\* The call: the thread goes to the first read of the dict literal and
\* remembers the statement after the call.
CallNotify(t, after) ==
    /\ pc' = [pc EXCEPT ![t] = "n_rate"]
    /\ ret' = [ret EXCEPT ![t] = after]

\* The return: the thread is at the statement after the call, the locals are gone.
ReturnTo(t, l) ==
    /\ pc' = [pc EXCEPT ![t] = l]
    /\ ret' = [ret EXCEPT ![t] = "none"]
    /\ metrics' = [metrics EXCEPT ![t] = NoMetrics]
    /\ idx' = [idx EXCEPT ![t] = 0]
    /\ faultNotified' = (faultNotified \/ ret[t] = "none")

\* 'production_rate': self.production_rate
NotifyReadRate(t) ==
    /\ pc[t] = "n_rate"
    /\ metrics' = [metrics EXCEPT ![t].production_rate = production_rate]
    /\ Goto(t, "n_err")
    /\ UNCHANGED <<cvars, config, rng, rngpos, state, production_rate, error_count,
                   total_produced, uptime, observers, lock, running,
                   metrics_history, now, ret, idx, found, flagged, cmds,
                   cycles, completed, held, faultNotified>>

\* 'error_count': self.error_count
NotifyReadErrors(t) ==
    /\ pc[t] = "n_err"
    /\ metrics' = [metrics EXCEPT ![t].error_count = error_count]
    /\ Goto(t, "n_total")
    /\ UNCHANGED <<cvars, config, rng, rngpos, state, production_rate, error_count,
                   total_produced, uptime, observers, lock, running,
                   metrics_history, now, ret, idx, found, flagged, cmds,
                   cycles, completed, held, faultNotified>>

\* 'total_produced': self.total_produced, 'uptime': self.uptime; then the for
\* loop, which ends at once when no observer is registered.
NotifyReadTotal(t) ==
    /\ pc[t] = "n_total"
    /\ IF observers = <<>>
         THEN ReturnTo(t, ret[t])
         ELSE /\ metrics' = [metrics EXCEPT ![t].total_produced = total_produced,
                                            ![t].uptime = uptime]
              /\ idx' = [idx EXCEPT ![t] = 1]
              /\ Goto(t, "n_call")
              /\ UNCHANGED <<ret, faultNotified>>
    /\ UNCHANGED <<cvars, config, rng, rngpos, state, production_rate, error_count,
                   total_produced, uptime, observers, lock, running,
                   metrics_history, now, found, flagged, cmds, cycles,
                   completed, held>>

\* Where an exception raised by observer.update() lands, by call site:
\* out of start_production()/stop_production() to the control thread's caller
\* (no Thread is started); in the worker's try block, the except clause; in
\* _perform_maintenance, the except clause after the with block released the
\* lock; in the except clause itself, out of the thread.
RaiseTarget(after) ==
    CASE after \in {"s_spawn", "idle"} -> "idle"
      [] after \in {"w_sleep", "m_sleep", "m_release"} -> "e_state"
      [] OTHER -> "none"

\* observer.update(self.state, metrics) for the observer the loop is at; after
\* the last observer notify_observers returns.
NotifyUpdate(t) ==
    /\ pc[t] = "n_call"
    /\ idx[t] <= Len(observers)
    /\ IF Raises(observers[idx[t]])
         THEN /\ ReturnTo(t, RaiseTarget(ret[t]))
              /\ lock' = IF ret[t] \in {"m_sleep", "m_release"} THEN lock \ {t} ELSE lock
         ELSE /\ IF idx[t] = Len(observers)
                   THEN ReturnTo(t, ret[t])
                   ELSE /\ idx' = [idx EXCEPT ![t] = idx[t] + 1]
                        /\ UNCHANGED <<pc, ret, metrics, faultNotified>>
              /\ lock' = lock
    /\ UNCHANGED <<cvars, config, rng, rngpos, state, production_rate, error_count,
                   total_produced, uptime, observers, running, metrics_history,
                   now, found, flagged, cmds, cycles, completed, held>>

\* ---------------------------------------------------- start_production
StartCall ==
    /\ pc[Caller] = "idle"
    /\ cmds < MaxCommands
    /\ cmds' = cmds + 1
    /\ Goto(Caller, "s_lock")
    /\ UNCHANGED <<cvars, config, rng, rngpos, state, production_rate, error_count,
                   total_produced, uptime, observers, lock, running,
                   metrics_history, now, ret, metrics, idx, found, flagged,
                   cycles, completed, held, faultNotified>>

\* StartCheck without its guard: the start goes on whatever the state is.
StartCheckUnguarded ==
    /\ pc[Caller] = "s_lock"
    /\ lock = {}
    /\ Goto(Caller, "s_state")
    /\ lock' = {Caller}
    /\ found' = state
    /\ UNCHANGED <<cvars, config, rng, rngpos, state, production_rate, error_count,
                   total_produced, uptime, observers, running, metrics_history,
                   now, ret, metrics, idx, flagged, cmds, cycles, completed,
                   held, faultNotified>>

\* with self._lock: if self.state != MachineState.IDLE: warning; return
\* (the with block releases the lock).
StartCheck ==
    /\ pc[Caller] = "s_lock"
    /\ lock = {}
    /\ IF state # IDLE
         THEN /\ Goto(Caller, "idle")
              /\ UNCHANGED <<lock, found>>
         ELSE /\ Goto(Caller, "s_state")
              /\ lock' = {Caller}
              /\ found' = state
    /\ UNCHANGED <<cvars, config, rng, rngpos, state, production_rate, error_count,
                   total_produced, uptime, observers, running, metrics_history,
                   now, ret, metrics, idx, flagged, cmds, cycles, completed,
                   held, faultNotified>>

\* self.state = MachineState.RUNNING
StartSetState ==
    /\ pc[Caller] = "s_state"
    /\ state' = RUNNING
    /\ Goto(Caller, "s_running")
    /\ UNCHANGED <<cvars, config, rng, rngpos, production_rate, error_count,
                   total_produced, uptime, observers, lock, running,
                   metrics_history, now, ret, metrics, idx, found, flagged,
                   cmds, cycles, completed, faultNotified>>
    /\ Record

\* self._running = True; the with block ends; self.notify_observers()
StartSetRunning ==
    /\ pc[Caller] = "s_running"
    /\ running' = TRUE
    /\ Release(Caller)
    /\ found' = "none"
    /\ CallNotify(Caller, "s_spawn")
    /\ UNCHANGED <<cvars, config, rng, rngpos, state, production_rate, error_count,
                   total_produced, uptime, observers, metrics_history, now,
                   metrics, idx, flagged, cmds, cycles, completed, held,
                   faultNotified>>

\* Thread(target=self._run_production).start()
StartSpawn ==
    /\ pc[Caller] = "s_spawn"
    /\ \E w \in Workers :
         /\ pc[w] = "none"
         /\ \A v \in Workers : pc[v] = "none" => w <= v
         /\ pc' = [pc EXCEPT ![Caller] = "idle", ![w] = "w_loop"]
    /\ UNCHANGED <<cvars, config, rng, rngpos, state, production_rate, error_count,
                   total_produced, uptime, observers, lock, running,
                   metrics_history, now, ret, metrics, idx, found, flagged,
                   cmds, cycles, completed, held, faultNotified>>

\* ----------------------------------------------------- stop_production
StopCall ==
    /\ pc[Caller] = "idle"
    /\ cmds < MaxCommands
    /\ cmds' = cmds + 1
    /\ Goto(Caller, "p_lock")
    /\ UNCHANGED <<cvars, config, rng, rngpos, state, production_rate, error_count,
                   total_produced, uptime, observers, lock, running,
                   metrics_history, now, ret, metrics, idx, found, flagged,
                   cycles, completed, held, faultNotified>>

\* StopCheck clearing the running flag before it looks at the state.
StopCheckClearsRunning ==
    /\ pc[Caller] = "p_lock"
    /\ lock = {}
    /\ running' = FALSE
    /\ IF state # RUNNING
         THEN /\ Goto(Caller, "idle")
              /\ UNCHANGED <<lock, found>>
         ELSE /\ Goto(Caller, "p_running")
              /\ lock' = {Caller}
              /\ found' = state
    /\ UNCHANGED <<cvars, config, rng, rngpos, state, production_rate, error_count,
                   total_produced, uptime, observers, metrics_history,
                   now, ret, metrics, idx, flagged, cmds, cycles, completed,
                   held, faultNotified>>

\* with self._lock: if self.state != MachineState.RUNNING: warning; return
\* (the with block releases the lock).
StopCheck ==
    /\ pc[Caller] = "p_lock"
    /\ lock = {}
    /\ IF state # RUNNING
         THEN /\ Goto(Caller, "idle")
              /\ UNCHANGED <<lock, found>>
         ELSE /\ Goto(Caller, "p_running")
              /\ lock' = {Caller}
              /\ found' = state
    /\ UNCHANGED <<cvars, config, rng, rngpos, state, production_rate, error_count,
                   total_produced, uptime, observers, running, metrics_history,
                   now, ret, metrics, idx, flagged, cmds, cycles, completed,
                   held, faultNotified>>

\* self._running = False
StopSetRunning ==
    /\ pc[Caller] = "p_running"
    /\ running' = FALSE
    /\ Goto(Caller, "p_state")
    /\ UNCHANGED <<cvars, config, rng, rngpos, state, production_rate, error_count,
                   total_produced, uptime, observers, lock, metrics_history,
                   now, ret, metrics, idx, found, flagged, cmds, cycles,
                   completed, held, faultNotified>>

\* StopSetState clearing the error counter as it stops the line.
StopSetStateClearsErrors ==
    /\ pc[Caller] = "p_state"
    /\ state' = IDLE
    /\ error_count' = 0
    /\ Release(Caller)
    /\ found' = "none"
    /\ CallNotify(Caller, "idle")
    /\ UNCHANGED <<cvars, config, rng, rngpos, production_rate, total_produced,
                   uptime, observers, running, metrics_history, now, metrics,
                   idx, flagged, cmds, cycles, completed, faultNotified>>
    /\ Record

\* self.state = MachineState.IDLE; the with block ends; self.notify_observers()
StopSetState ==
    /\ pc[Caller] = "p_state"
    /\ state' = IDLE
    /\ Release(Caller)
    /\ found' = "none"
    /\ CallNotify(Caller, "idle")
    /\ UNCHANGED <<cvars, config, rng, rngpos, production_rate, error_count,
                   total_produced, uptime, observers, running, metrics_history,
                   now, metrics, idx, flagged, cmds, cycles, completed,
                   faultNotified>>
    /\ Record

\* ------------------------------------------------------ _run_production
\* while self._running: the flag is read with no lock held. False: the loop,
\* the function and the thread end.
WorkerExit(w) ==
    /\ pc[w] = "w_loop"
    /\ ~running
    /\ Goto(w, "none")
    /\ UNCHANGED <<cvars, config, rng, rngpos, state, production_rate, error_count,
                   total_produced, uptime, observers, lock, running,
                   metrics_history, now, ret, metrics, idx, found, flagged,
                   cmds, cycles, completed, held, faultNotified>>

\* WorkerBegin going into the next cycle without reading the running flag.
WorkerBeginIgnoresFlag(w) ==
    /\ pc[w] = "w_loop"
    /\ cycles < MaxCycles \/ EndsByItself
    /\ cycles' = cycles + 1
    /\ Goto(w, "c_lock")
    /\ UNCHANGED <<cvars, config, rng, rngpos, state, production_rate, error_count,
                   total_produced, uptime, observers, lock, running,
                   metrics_history, now, ret, metrics, idx, found, flagged,
                   cmds, completed, held, faultNotified>>

\* while self._running: True, the body begins with self._simulate_production_cycle().
WorkerBegin(w) ==
    /\ pc[w] = "w_loop"
    /\ running
    /\ cycles < MaxCycles \/ EndsByItself
    /\ cycles' = cycles + 1
    /\ Goto(w, "c_lock")
    /\ UNCHANGED <<cvars, config, rng, rngpos, state, production_rate, error_count,
                   total_produced, uptime, observers, lock, running,
                   metrics_history, now, ret, metrics, idx, found, flagged,
                   cmds, completed, held, faultNotified>>

\* -------------------------------------------- _simulate_production_cycle
\* with self._lock: if random.random() < error_threshold: self.error_count += 1;
\* if self.error_count > 5: raise RuntimeError (the with block releases the
\* lock and the exception lands in _run_production's except clause).
CycleDraw(w) ==
    /\ pc[w] = "c_lock"
    /\ lock = {}
    /\ Drawn
    /\ IF Random < config.error_threshold
           THEN /\ error_count' = error_count + 1
                /\ IF error_count + 1 > ErrorLimit
                     THEN /\ lock' = {}
                          /\ flagged' = [flagged EXCEPT ![w] = FALSE]
                          /\ Goto(w, "e_state")
                     ELSE /\ lock' = {w}
                          /\ flagged' = [flagged EXCEPT ![w] = TRUE]
                          /\ Goto(w, "c_rate")
           ELSE /\ error_count' = error_count
                /\ flagged' = [flagged EXCEPT ![w] = FALSE]
                /\ lock' = {w}
                /\ Goto(w, "c_rate")
    /\ UNCHANGED <<cvars, config, rng, state, production_rate, total_produced, uptime,
                   observers, running, metrics_history, now, ret, metrics, idx,
                   found, cmds, cycles, completed, faultNotified>>
    /\ Record

\* self.production_rate = random.uniform(0.8, 1.0) * self.config.max_speed
CycleRate(w) ==
    /\ pc[w] = "c_rate"
    /\ production_rate' = (Uniform * config.max_speed) \div 100
    /\ Drawn
    /\ Goto(w, "c_total")
    /\ UNCHANGED <<cvars, config, rng, state, error_count, total_produced, uptime,
                   observers, lock, running, metrics_history, now, ret,
                   metrics, idx, found, flagged, cmds, cycles, completed,
                   faultNotified>>
    /\ Record

\* self.total_produced += int(self.production_rate / 60); the with block ends.
CycleTotal(w) ==
    /\ pc[w] = "c_total"
    /\ total_produced' = total_produced + (production_rate \div PerSecond)
    /\ Release(w)
    /\ flagged' = [flagged EXCEPT ![w] = FALSE]
    /\ completed' = completed + 1
    /\ Goto(w, "w_uptime")
    /\ UNCHANGED <<cvars, config, rng, rngpos, state, production_rate, error_count,
                   uptime, observers, running, metrics_history, now, ret,
                   metrics, idx, found, cmds, cycles, faultNotified>>
    /\ Record

\* self.uptime = time.time() - self.start_time;
\* if self.uptime >= self.config.maintenance_interval: self._perform_maintenance()
WorkerUptime(w) ==
    /\ pc[w] = "w_uptime"
    /\ uptime' = now
    /\ Goto(w, IF now >= config.maintenance_interval THEN "m_lock" ELSE "u_metrics")
    /\ UNCHANGED <<cvars, config, rng, rngpos, state, production_rate, error_count,
                   total_produced, observers, lock, running, metrics_history,
                   now, ret, metrics, idx, found, flagged, cmds, cycles,
                   completed, held, faultNotified>>

\* --------------------------------------------------- _perform_maintenance
\* with self._lock: self.state = MachineState.MAINTENANCE; self.notify_observers()
MaintenanceBegin(w) ==
    /\ pc[w] = "m_lock"
    /\ Acquire(w)
    /\ state' = MAINTENANCE
    /\ CallNotify(w, "m_sleep")
    /\ UNCHANGED <<cvars, config, rng, rngpos, production_rate, error_count,
                   total_produced, uptime, observers, running, metrics_history,
                   now, metrics, idx, found, flagged, cmds, cycles, completed,
                   faultNotified>>
    /\ Record

\* time.sleep(5), with the lock held.
MaintenanceSleep(w) ==
    /\ pc[w] = "m_sleep"
    /\ now' = Min(now + MaintenancePause, MaxTime)
    /\ Goto(w, "m_reset")
    /\ UNCHANGED <<cvars, config, rng, rngpos, state, production_rate, error_count,
                   total_produced, uptime, observers, lock, running,
                   metrics_history, ret, metrics, idx, found, flagged, cmds,
                   cycles, completed, held, faultNotified>>

\* MaintenanceReset clearing the production counter with the error counter.
MaintenanceResetClearsTotal(w) ==
    /\ pc[w] = "m_reset"
    /\ error_count' = 0
    /\ total_produced' = 0
    /\ Goto(w, "m_state")
    /\ UNCHANGED <<cvars, config, rng, rngpos, state, production_rate, uptime,
                   observers, lock, running, metrics_history, now, ret,
                   metrics, idx, found, flagged, cmds, cycles, completed,
                   faultNotified>>
    /\ Record

\* self.error_count = 0
MaintenanceReset(w) ==
    /\ pc[w] = "m_reset"
    /\ error_count' = 0
    /\ Goto(w, "m_state")
    /\ UNCHANGED <<cvars, config, rng, rngpos, state, production_rate, total_produced,
                   uptime, observers, lock, running, metrics_history, now, ret,
                   metrics, idx, found, flagged, cmds, cycles, completed,
                   faultNotified>>
    /\ Record

\* self.state = MachineState.RUNNING; self.notify_observers()
MaintenanceEnd(w) ==
    /\ pc[w] = "m_state"
    /\ state' = RUNNING
    /\ CallNotify(w, "m_release")
    /\ UNCHANGED <<cvars, config, rng, rngpos, production_rate, error_count,
                   total_produced, uptime, observers, lock, running,
                   metrics_history, now, metrics, idx, found, flagged, cmds,
                   cycles, completed, faultNotified>>
    /\ Record

\* The with block ends: _perform_maintenance returns.
MaintenanceReturn(w) ==
    /\ pc[w] = "m_release"
    /\ Release(w)
    /\ Goto(w, "u_metrics")
    /\ UNCHANGED <<cvars, config, rng, rngpos, state, production_rate, error_count,
                   total_produced, uptime, observers, running, metrics_history,
                   now, ret, metrics, idx, found, flagged, cmds, cycles,
                   completed, held, faultNotified>>

\* -------------------------------------------------------- _update_metrics
\* The four appends, with no lock held; back in the loop, self.notify_observers().
UpdateMetrics(w) ==
    /\ pc[w] = "u_metrics"
    /\ metrics_history' =
         [time |-> Append(metrics_history.time, now),
          production_rate |-> Append(metrics_history.production_rate, production_rate),
          error_count |-> Append(metrics_history.error_count, error_count),
          total_produced |-> Append(metrics_history.total_produced, total_produced)]
    /\ CallNotify(w, "w_sleep")
    /\ UNCHANGED <<cvars, config, rng, rngpos, state, production_rate, error_count,
                   total_produced, uptime, observers, lock, running, now,
                   metrics, idx, found, flagged, cmds, cycles, completed, held,
                   faultNotified>>

\* time.sleep(1.0), then the loop's condition again.
WorkerSleep(w) ==
    /\ pc[w] = "w_sleep"
    /\ now' = Min(now + CyclePause, MaxTime)
    /\ Goto(w, "w_loop")
    /\ UNCHANGED <<cvars, config, rng, rngpos, state, production_rate, error_count,
                   total_produced, uptime, observers, lock, running,
                   metrics_history, ret, metrics, idx, found, flagged, cmds,
                   cycles, completed, held, faultNotified>>

\* except Exception: self.state = MachineState.ERROR; self.notify_observers();
\* break. No lock is held here.
WorkerError(w) ==
    /\ pc[w] = "e_state"
    /\ state' = ERROR
    /\ CallNotify(w, "none")
    /\ UNCHANGED <<cvars, config, rng, rngpos, production_rate, error_count,
                   total_produced, uptime, observers, lock, running,
                   metrics_history, now, metrics, idx, found, flagged, cmds,
                   cycles, completed, faultNotified>>
    /\ Record

\* ------------------------------------------------------------ the system
Notify(t) ==
    \/ NotifyReadRate(t)
    \/ NotifyReadErrors(t)
    \/ NotifyReadTotal(t)
    \/ NotifyUpdate(t)

Control ==
    \/ \E o \in ObserverClasses : RegisterObserver(o)
    \/ StartCall \/ StartCheck \/ StartSetState \/ StartSetRunning \/ StartSpawn
    \/ StopCall \/ StopCheck \/ StopSetRunning \/ StopSetState

Worker(w) ==
    \/ WorkerExit(w) \/ WorkerBegin(w)
    \/ CycleDraw(w) \/ CycleRate(w) \/ CycleTotal(w)
    \/ WorkerUptime(w)
    \/ MaintenanceBegin(w) \/ MaintenanceSleep(w) \/ MaintenanceReset(w)
    \/ MaintenanceEnd(w) \/ MaintenanceReturn(w)
    \/ UpdateMetrics(w)
    \/ WorkerSleep(w) \/ WorkerError(w)

Next ==
    \/ Control
    \/ \E t \in Threads : Notify(t)
    \/ \E w \in Workers : Worker(w)

Spec == Init /\ [][Next]_vars

\* ------------------------------------------------------------ scheduling
\* The steps of a command in progress: a thread that has entered
\* start_production() or stop_production() runs on to the call's end (whether
\* the control thread issues a further command is up to it).
CallerStep ==
    \/ StartCheck \/ StartSetState \/ StartSetRunning \/ StartSpawn
    \/ StopCheck \/ StopSetRunning \/ StopSetState
    \/ Notify(Caller)

\* The interpreter schedules every runnable thread: a started worker thread and
\* a command in progress each take their next step when it stays possible.
FairSpec ==
    /\ Spec
    /\ WF_vars(CallerStep)
    /\ \A w \in Workers : WF_vars(Worker(w) \/ Notify(w))

\* ---------------------------------------------------------- Configuration
\* The fields before _load_config has run.
Unloaded == [max_speed |-> 0, error_threshold |-> 0, maintenance_interval |-> 0]

\* The class as the module's import leaves it: _instance = None, _lock free;
\* no ProductionLine is at work.
ConfigInit ==
    /\ config = Unloaded
    /\ rng = <<0>>
    /\ LineInit
    /\ cls_instance = 0
    /\ cls_lock = {}
    /\ objects = 0
    /\ loads = 0
    /\ returned = {}
    /\ cpc = [t \in ConfigCallers |-> "out"]
    /\ calls = [t \in ConfigCallers |-> 0]

ConfigGoto(t, l) == cpc' = [cpc EXCEPT ![t] = l]

\* A thread calls Configuration(): __new__ begins.
ConfigCall(t) ==
    /\ cpc[t] = "out"
    /\ calls[t] < MaxCalls
    /\ calls' = [calls EXCEPT ![t] = calls[t] + 1]
    /\ ConfigGoto(t, "new")
    /\ UNCHANGED <<config, lvars, cls_instance, cls_lock, objects, loads, returned>>

\* ConfigEnter going into the block without taking the lock.
ConfigEnterUnlocked(t) ==
    /\ cpc[t] = "new"
    /\ ConfigGoto(t, "check")
    /\ UNCHANGED <<config, lvars, cls_instance, cls_lock, objects, loads, returned, calls>>

\* with cls._lock:
ConfigEnter(t) ==
    /\ cpc[t] = "new"
    /\ cls_lock = {}
    /\ cls_lock' = {t}
    /\ ConfigGoto(t, "check")
    /\ UNCHANGED <<config, lvars, cls_instance, objects, loads, returned, calls>>

\* if cls._instance is None:
ConfigCheck(t) ==
    /\ cpc[t] = "check"
    /\ ConfigGoto(t, IF cls_instance = 0 THEN "create" ELSE "return")
    /\ UNCHANGED <<config, lvars, cls_instance, cls_lock, objects, loads, returned, calls>>

\* cls._instance = super(Configuration, cls).__new__(cls): a new object.
ConfigCreate(t) ==
    /\ cpc[t] = "create"
    /\ objects' = objects + 1
    /\ cls_instance' = objects + 1
    /\ ConfigGoto(t, "load")
    /\ UNCHANGED <<config, lvars, cls_lock, loads, returned, calls>>

\* cls._instance._load_config()
ConfigLoad(t) ==
    /\ cpc[t] = "load"
    /\ loads' = loads + 1
    /\ config' = [max_speed |-> MaxSpeed,
                  error_threshold |-> DefaultErrorThreshold,
                  maintenance_interval |-> DefaultMaintenanceInterval]
    /\ ConfigGoto(t, "return")
    /\ UNCHANGED <<lvars, cls_instance, cls_lock, objects, returned, calls>>

\* return cls._instance; the with block releases the lock.
ConfigReturn(t) ==
    /\ cpc[t] = "return"
    /\ returned' = returned \cup {cls_instance}
    /\ cls_lock' = cls_lock \ {t}
    /\ ConfigGoto(t, "out")
    /\ UNCHANGED <<config, lvars, cls_instance, objects, loads, calls>>

ConfigNext ==
    \E t \in ConfigCallers :
        \/ ConfigCall(t) \/ ConfigEnter(t) \/ ConfigCheck(t)
        \/ ConfigCreate(t) \/ ConfigLoad(t) \/ ConfigReturn(t)

ConfigSpec == ConfigInit /\ [][ConfigNext]_vars

\* ------------------------------------------------------------ the claims
\* A step of thread t.
StepOf(t) == pc'[t] # pc[t] \/ idx'[t] # idx[t]
\* The step in which thread t calls observer.update(self.state, metrics).
Delivers(t) == pc[t] = "n_call" /\ StepOf(t)
\* Thread t is inside notify_observers.
InNotify(t) == pc[t] \in {"n_rate", "n_err", "n_total", "n_call"}
\* The worker threads alive.
Alive == {w \in Workers : pc[w] # "none"}

\* C1 (as claimed): when a command returns the state is Idle or Running, and a
\* command changes the state only along the table (start: Idle to Running,
\* stop: Running to Idle).
C1_StateAfterCommand ==
    [][ /\ (StepOf(Caller) /\ pc'[Caller] = "idle") => state' \in {IDLE, RUNNING}
        /\ (StepOf(Caller) /\ state' # state) =>
              \/ pc[Caller] = "s_state" /\ found = IDLE /\ state' = RUNNING
              \/ pc[Caller] = "p_state" /\ found = RUNNING /\ state' = IDLE ]_vars

\* C1 (amended): a command changes the state only along the table: start
\* writes Running, and only when the state its guard read under the lock was
\* Idle; stop writes Idle, and only when the state its guard read was Running;
\* no other step of a command writes the state.
C1_CommandsFollowTable ==
    [][ /\ (StepOf(Caller) /\ pc[Caller] = "s_state") => (found = IDLE /\ state' = RUNNING)
        /\ (StepOf(Caller) /\ pc[Caller] = "p_state") => (found = RUNNING /\ state' = IDLE)
        /\ (StepOf(Caller) /\ pc[Caller] \notin {"s_state", "p_state"}) => state' = state ]_vars

\* A stop that succeeded after a start that succeeded: the stop has written
\* Idle and is notifying.
C1_Witness ==
    /\ pc[Caller] = "n_rate" /\ ret[Caller] = "idle"
    /\ state = IDLE /\ ~running
    /\ Alive # {}

\* C2: at most one worker thread is alive at any time.
C2_AtMostOneWorker == Cardinality(Alive) <= 1

\* The positions whose statement reads or writes state, error_count,
\* total_produced, production_rate or metrics_history (the positions that
\* first acquire the lock aside).
AccessPositions ==
    {"s_state", "p_state", "c_rate", "c_total", "m_reset", "m_state",
     "u_metrics", "e_state", "n_rate", "n_err", "n_total", "n_call"}

\* C3: a thread about to read or write one of the five fields holds the lock.
C3_AccessUnderLock == \A t \in Threads : pc[t] \in AccessPositions => t \in lock

\* C4: the state and the metrics an observer's update() receives are those of
\* one state the line held at some instant.
C4_SnapshotConsistent ==
    [][ \A t \in Threads : Delivers(t) =>
          Aggregate(state, metrics[t].production_rate, metrics[t].error_count,
                    metrics[t].total_produced) \in held ]_vars

\* C5: total_produced never decreases, in any step.
C5_TotalMonotone == [][total_produced' >= total_produced]_vars

\* Production went on after a completed maintenance routine.
C5_Witness ==
    /\ total_produced >= 2
    /\ \E h \in held : h[1] = MAINTENANCE /\ h[4] < total_produced

\* C6: once error_count exceeds 5 the except clause's notification carries
\* Error, and after that notification no worker notifies again.
C6_FaultEndsNotifications ==
    [][ /\ \A w \in Workers :
              (Delivers(w) /\ ret[w] = "none" /\ error_count > ErrorLimit) => state = ERROR
        /\ (faultNotified /\ error_count > ErrorLimit) =>
              ~ \E w \in Workers : InNotify(w) /\ StepOf(w) ]_vars

\* C7: after a fatal cycle fault (error_count over the limit, state Error) no
\* step changes the state.
C7_ErrorTerminal ==
    [][(state = ERROR /\ error_count > ErrorLimit) => state' = ERROR]_vars

\* C8: when _perform_maintenance returns, error_count is 0 and the state is
\* Running; with maintenance_interval 0 the first metrics entry records
\* error_count 0.
C8_MaintenanceResult ==
    [][ /\ \A w \in Workers : (pc[w] = "m_release" /\ StepOf(w)) =>
              (error_count = 0 /\ state = RUNNING)
        /\ (config.maintenance_interval = 0 /\ metrics_history'.error_count # <<>>) =>
              metrics_history'.error_count[1] = 0 ]_vars

\* C9: error_count decreases only in the maintenance routine's reset, to 0.
C9_ErrorsOnlyResetByMaintenance ==
    [][ error_count' < error_count =>
          /\ error_count' = 0
          /\ \E w \in Workers : pc[w] = "m_reset" /\ pc'[w] = "m_state" ]_vars

\* The maintenance routine has reset an error_count that was not 0.
C9_Witness ==
    /\ \E w \in Workers : pc[w] = "m_state"
    /\ error_count = 0
    /\ \E h \in held : h[1] = MAINTENANCE /\ h[3] > 0

\* C10: a cycle flagged erroneous leaves production_rate and total_produced
\* unchanged.
C10_FlaggedCycleProducesNothing ==
    [][ \A w \in Workers :
          (flagged[w] /\ pc[w] \in {"c_rate", "c_total"} /\ StepOf(w)) =>
            (production_rate' = production_rate /\ total_produced' = total_produced) ]_vars

\* The scenario of C11: every cycle flagged (error_threshold 1.0), maintenance
\* never due, and start_production() the only command issued.
ForcedErrors ==
    /\ config.error_threshold = 100
    /\ config.maintenance_interval > MaxTime
    /\ cmds = 1

\* C11: in that scenario, once the line is in Error the cycle in which it got
\* there is the 6th, the worker begins no further cycle, and metrics_history
\* has exactly 6 entries.
C11_SixEntriesAtFault ==
    (ForcedErrors /\ state = ERROR) =>
        /\ cycles = ErrorLimit + 1
        /\ \A w \in Workers : pc[w] \in {"none", "n_rate", "n_err", "n_total", "n_call"}
        /\ Len(metrics_history.time) = ErrorLimit + 1

\* What the code does in that scenario: the 6th cycle raises before
\* _update_metrics, so the history has 5 entries.
C11_FiveEntriesAtFault ==
    (ForcedErrors /\ state = ERROR) =>
        /\ cycles = ErrorLimit + 1
        /\ \A w \in Workers : pc[w] \in {"none", "n_rate", "n_err", "n_total", "n_call"}
        /\ Len(metrics_history.time) = ErrorLimit
        /\ Len(metrics_history.error_count) = ErrorLimit

C11_Witness == ForcedErrors /\ state = ERROR /\ Alive = {}

\* The lists of metrics_history.
HistoryLists == {"time", "production_rate", "error_count", "total_produced"}
\* List s is a prefix of list t.
IsPrefix(s, t) == Len(s) <= Len(t) /\ SubSeq(t, 1, Len(s)) = s
\* No worker is inside a loop iteration: each is at the loop's condition or has ended.
BetweenIterations == \A w \in Workers : pc[w] \in {"none", "w_loop"}

\* C12: no step removes or rewrites an entry of metrics_history, and whenever
\* no worker is inside a loop iteration each of the four lists is as long as
\* the number of production cycles completed since construction.
C12_HistoryMatchesCycles ==
    [][ /\ \A l \in HistoryLists : IsPrefix(metrics_history[l], metrics_history'[l])
        /\ BetweenIterations' =>
              \A l \in HistoryLists : Len(metrics_history'[l]) = completed' ]_vars

\* The append-only half of C12 alone.
C12_AppendOnly ==
    [][ \A l \in HistoryLists :
          /\ IsPrefix(metrics_history[l], metrics_history'[l])
          /\ Len(metrics_history'[l]) <= Len(metrics_history[l]) + 1 ]_vars

\* What C13 asks of a step.
NotifiesInOrder ==
    /\ \A t \in Threads :
          /\ (pc[t] = "n_call" /\ pc'[t] # "n_call") => idx[t] = Len(observers)
          /\ (pc[t] = "n_call" /\ pc'[t] = "n_call" /\ idx'[t] # idx[t]) =>
                idx'[t] = idx[t] + 1
          /\ (pc[t] = "n_total" /\ pc'[t] = "n_call") => idx'[t] = 1
    /\ \A w \in Workers :
          /\ (pc[w] = "none" /\ pc'[w] # "none") => pc[Caller] = "s_spawn"
          /\ (pc[w] # "e_state" /\ pc'[w] = "e_state") => pc[w] = "c_lock"

\* C13: a notification pass (of the start transition, of a completed cycle, of
\* the stop transition) calls the registered observers in registration order
\* and ends only after the last of them; the worker, and with it every cycle
\* notification of the run, starts after the start transition's pass; and an
\* iteration whose cycle completed gets to its notification (only a cycle that
\* did not complete leads to the except clause).
C13_EveryObserverNotified == [][NotifiesInOrder]_vars

\* No registered observer's update() raises.
NoRaiser == \A i \in 1..Len(observers) : ~Raises(observers[i])

\* C13 for observers that do not raise.
C13_NotifiedUnlessRaising == [][NoRaiser' => NotifiesInOrder]_vars

\* The step in which the guard of the command in flight fails.
Rejects ==
    /\ StepOf(Caller)
    /\ \/ pc[Caller] = "s_lock" /\ state # IDLE
       \/ pc[Caller] = "p_lock" /\ state # RUNNING

\* C14: the step in which a command's guard fails (start on a state other than
\* Idle, stop on a state other than Running) returns to the caller and leaves
\* the state, the running flag, the counters, the metrics history and the
\* observer list as they were, starts no thread and calls no observer.
C14_RejectedCommandNoEffect ==
    [][ Rejects =>
          /\ pc' = [pc EXCEPT ![Caller] = "idle"]
          /\ state' = state /\ running' = running
          /\ production_rate' = production_rate /\ error_count' = error_count
          /\ total_produced' = total_produced /\ uptime' = uptime
          /\ metrics_history' = metrics_history /\ observers' = observers
          /\ lock' = lock /\ idx' = idx /\ ret' = ret ]_vars

\* Two commands were issued and have returned, neither a registration, the
\* line is Running with its worker and maintenance is never due: a successful
\* stop would have left Idle, so one of the two was rejected.
C14_Witness ==
    /\ cmds = 2 /\ pc[Caller] = "idle"
    /\ observers = <<>>
    /\ config.maintenance_interval > MaxTime
    /\ state = RUNNING /\ running
    /\ Alive # {}

\* The worker's pauses: time.sleep(1.0) between cycles, time.sleep(5) in maintenance.
PausePositions == {"w_sleep", "m_sleep"}

\* C15: the control thread is never waiting for the lock (at the with
\* statement of start_production() or stop_production()) while a worker that
\* holds the lock is in one of its pauses.
C15_ControlNeverWaitsOnPause ==
    ~ /\ pc[Caller] \in {"s_lock", "p_lock"}
      /\ \E w \in Workers : pc[w] \in PausePositions /\ w \in lock

\* C16: a worker begins a production cycle only on reading the running flag
\* true, so none begins after a stop cleared it; and once the flag is clear
\* every worker ends, unless a later start sets the flag again.
C16_WorkerStopsAfterStop ==
    /\ [][ \A w \in Workers : (pc[w] = "w_loop" /\ pc'[w] = "c_lock") => running ]_vars
    /\ (~running ~> (Alive = {} \/ running))

\* A stop succeeded after production had begun, and the worker has ended.
C16_Witness ==
    /\ ~running /\ state = IDLE /\ pc[Caller] = "idle"
    /\ completed >= 1
    /\ Alive = {}

\* The step in which the update() thread t calls raises.
UpdateRaises(t) ==
    /\ Delivers(t)
    /\ idx[t] <= Len(observers)
    /\ Raises(observers[idx[t]])

\* C17: an update() that raises changes neither the state, the counters nor
\* the running flag, and the pass goes on as after an update() that returned:
\* to the next observer, or back to the statement after the notify_observers()
\* call (the Thread start of start_production(), the worker's pause, the rest
\* of the maintenance routine), never to the except clause or out of the call.
C17_ObserverFailureIsolated ==
    [][ \A t \in Threads : UpdateRaises(t) =>
          /\ state' = state /\ running' = running
          /\ production_rate' = production_rate /\ error_count' = error_count
          /\ total_produced' = total_produced
          /\ pc'[t] = IF idx[t] < Len(observers) THEN "n_call" ELSE ret[t] ]_vars

\* C19: the state a worker overwrites with Maintenance is Running.
C19_MaintenanceOnlyFromRunning ==
    [][ \A w \in Workers :
          (pc[w] = "m_lock" /\ StepOf(w) /\ state' = MAINTENANCE) => state = RUNNING ]_vars

\* The control thread is inside the with block of a command, between its two
\* writes (of the state and of the running flag).
BetweenWrites == pc[Caller] \in {"s_running", "p_state"}

\* C20: with no worker alive and no command in progress the state is Idle or
\* Error; and, outside a command's with block, state Running or Maintenance
\* comes with the running flag set.
C20_RunningHasWorker ==
    /\ (Alive = {} /\ pc[Caller] = "idle") => state \in {IDLE, ERROR}
    /\ (state \in {RUNNING, MAINTENANCE} /\ ~BetweenWrites) => running

\* The second half of C20 alone.
C20_RunningHasFlag ==
    (state \in {RUNNING, MAINTENANCE} /\ ~BetweenWrites) => running

\* C18: at most one Configuration object is ever made and _load_config runs at
\* most once; every Configuration() call that has returned has returned the
\* one object _instance holds, made and loaded exactly once.
C18_SingleInstance ==
    /\ objects <= 1
    /\ loads <= 1
    /\ \A i \in returned : i = cls_instance /\ i # 0
    /\ returned # {} => (objects = 1 /\ loads = 1)

\* Concurrent first accesses: one thread has made and loaded the instance and
\* still holds the lock, another thread's first call waits for it, and no
\* call has returned yet.
C18_Witness ==
    /\ returned = {}
    /\ loads = 1
    /\ \E t, u \in ConfigCallers :
          /\ t # u
          /\ cpc[t] = "return" /\ t \in cls_lock
          /\ cpc[u] = "new" /\ calls[u] = 1

\* Every thread has made all its calls and got the instance.
C18_AllReturned ==
    /\ \A t \in ConfigCallers : calls[t] = MaxCalls /\ cpc[t] = "out"
    /\ returned = {1}

====
